---- MODULE Spec2Model ----
(***************************************************************************)
(* Gesture classification and the stability-locked gesture FSM of          *)
(* src/gesture_controller.py.                                              *)
(*                                                                         *)
(* Units.  Landmark coordinates are normalised floats in the source; here  *)
(* they are integers in thousandths (0.03 -> 30).  Clock readings are      *)
(* integers in hundredths of a second (0.35 s -> 35).                      *)
(* Python's None is the string "None".  A landmark list is a sequence of   *)
(* <<x, y, z>> triples; Python index i is position i + 1.                  *)
(***************************************************************************)
EXTENDS Integers, Sequences, FiniteSets, TLC

\* ---------------------------------------------------------------- config
GESTURE_IDLE          == "IDLE"
GESTURE_THREE_FINGERS == "THREE_FINGERS"
GESTURE_OPEN_PALM     == "OPEN_PALM"
GESTURE_FIST          == "FIST"
GESTURE_PEACE         == "PEACE"
None                  == "None"

Labels    == {GESTURE_IDLE, GESTURE_THREE_FINGERS, GESTURE_OPEN_PALM,
              GESTURE_FIST, GESTURE_PEACE}
Actionable == Labels \ {GESTURE_IDLE}

\* EXTENSION_TOLERANCE = 0.03, in thousandths
EXTENSION_TOLERANCE == 30
\* EXTENSION_TOLERANCE * 0.5 = 0.015, in thousandths
HALF_TOLERANCE == 15
\* the literal 0.12 of _thumb_extended, in thousandths
THUMB_CURL_MARGIN == 120
GESTURE_STABILITY_FRAMES == 6
\* SWITCH_COOLDOWN = 0.35 s, in hundredths of a second
SWITCH_COOLDOWN == 35
\* config.DEBOUNCE_FRAMES (defined in config.py, never read by the FSM)
DEBOUNCE_FRAMES == 3
\* number of landmarks update() requires before it classifies
LANDMARK_COUNT == 21
\* Flower.update and EnergyOrb.update return age < 22.0, in hundredths of a second
ENTITY_LIFETIME == 2200
\* config.MAX_OBJECTS
MAX_OBJECTS == 1

\* ---------------------------------------------------------------- bounds
\* update() calls per run
MaxCalls == 13
\* wall-clock reading at construction (time.time() is seconds since 1970)
ClockStart == 100
\* largest clock advance over a run, in hundredths of a second
MaxElapsed == 36
\* clock advance between two update() calls, in hundredths of a second
ClockSteps == {0, 17, 18}
\* calls made on an ObjectManager per run
MaxSceneCalls == 5
\* largest entity age followed, in hundredths of a second
MaxAge == 2400
\* the dt values handed to ObjectManager.update, in hundredths of a second
SceneDts == {700, 800}
\* clock advance between two iterations of the frame loop, in hundredths of
\* a second
LoopSteps == {0, 18}
\* clock advance within one iteration, between the reading of run() (line
\* 95) and the reading of update() (line 86), in hundredths of a second
\* (the events are polled, the frame is read and the pose estimated between
\* the two); update() reads the clock only when it gets to the cooldown test
LoopLags == {0, 18}
\* update() calls made before one label is shown for good
MaxLead == 6
\* hands shown from then on
MaxHeld == 8
\* no-hand calls that come between those hands
MaxDrops == 1
\* clock advance between two calls while the label is shown: the clock keeps
\* advancing, by 0.05 s or by 0.18 s
HeldSteps == {5, 18}
\* set_active_gesture() calls per run
MaxSets == 2

VARIABLES
    _gesture_hold,    \* GestureController._gesture_hold
    _hold_frames,     \* GestureController._hold_frames
    _active_gesture,  \* GestureController._active_gesture
    _last_switch,     \* GestureController._last_switch
    _frame_count,     \* GestureController._frame_count
    clock,            \* the latest reading of time.time() (line 86 or line 95)
    out,              \* return value of the latest update() call; None when
                      \*   that call raised instead of returning
    raw,              \* raw gesture of the latest call; "NOHAND" if not classified
    fingers,          \* finger booleans of the latest classification
    nlm,              \* len(landmarks) of the latest call
    calls,            \* history: number of update() calls so far
    run,              \* history: length of the current run of classifiable
                      \*   frames (>= 21 landmarks) with one raw label
    runLabel,         \* history: the raw label of that run
    consec,           \* history: like run, but a frame with fewer than 21
                      \*   landmarks ends the run
    uni,              \* history: the one raw label of every 21-landmark frame
                      \*   so far; "MIXED" once two differ or a longer list came
    lastEmit,         \* history: label of the latest non-IDLE return
    emitTime,         \* history: clock reading of the latest non-IDLE return
    emits,            \* history: number of non-IDLE returns so far
    current_object,   \* ObjectManager.current_object
    current_gesture,  \* ObjectManager.current_gesture
    made,             \* number of entity constructors invoked so far; the
                      \*   n-th entity constructed has identity n
    sceneCalls,       \* history: number of ObjectManager calls so far
    lastOp,           \* history: the latest ObjectManager call and its result
    running,          \* CinematicUniverse3D.running
    last_time,        \* CinematicUniverse3D.last_time
    pc,               \* where run() is: "loop" in the while loop, "done" after
                      \*   the finally block
    released,         \* the finally block of run() ran to its end: camera
                      \*   and hand tracker are released, pygame has quit
    tick,             \* history: what the latest loop iteration did
    story,            \* history: "open" while every update() call so far got
                      \*   an open hand, "fist" while six or more of those were
                      \*   followed by fists only, otherwise "off"
    hand,             \* the landmark list handed to _detect on its own
    mirror,           \* what _thumb_extended and _detect give on that list
                      \*   mirrored horizontally
    target,           \* history: the label every hand shows from some call
                      \*   on; None before that call
    held,             \* history: hands shown since then
    drops,            \* history: no-hand calls since then
    lastSet           \* history: the latest set_active_gesture() call

obs_vars == <<clock, out, raw, fingers, nlm>>
hist_vars == <<calls, run, runLabel, consec, uni, lastEmit, emitTime, emits>>
fsm_vars == <<_gesture_hold, _hold_frames, _active_gesture, _last_switch,
              _frame_count>>
scene_vars == <<current_object, current_gesture, made, sceneCalls, lastOp>>
loop_vars == <<running, last_time, pc, released, tick, story>>
geo_vars == <<hand, mirror>>
persist_vars == <<target, held, drops>>
more_vars == <<hand, mirror, target, held, drops>>
set_vars == <<lastSet>>
vars == <<_gesture_hold, _hold_frames, _active_gesture, _last_switch,
          _frame_count, clock, out, raw, fingers, nlm,
          calls, run, runLabel, consec, uni, lastEmit, emitTime, emits,
          current_object, current_gesture, made, sceneCalls, lastOp,
          running, last_time, pc, released, tick, story,
          hand, mirror, target, held, drops, lastSet>>

\* ------------------------------------------------------- landmark access
_y(landmarks, idx) == landmarks[idx + 1][2]

_x(landmarks, idx) == landmarks[idx + 1][1]

\* ---------------------------------------------- comparisons of doubles
\* A coordinate k stands for the double nearest to k/1000 (k in 0..1000), a
\* clock reading k for the double nearest to k/100 (k in 0..635).  The code
\* compares doubles.  Where the two sides differ by a thousandth (hundredth)
\* or more the comparison of the doubles is the comparison of the integers.
\* Where they are equal as decimals (a tie) the rounding of the doubles and
\* of their sum or difference decides; the sets below list the ties that the
\* code's expression decides as True.

\* pip_y with  (pip_y - 30)/1000 < pip_y/1000 - 0.03  in doubles
ExtendedTies ==
    (31..35) \cup (39..42) \cup (48..50) \cup (56..58) \cup (66..70) \cup
    (81..85) \cup {101} \cup (116..117) \cup (132..140) \cup {171} \cup
    (202..203) \cup {234} \cup (265..279) \cup (312..343) \cup (437..468)

\* "tip_y < pip_y - EXTENSION_TOLERANCE"
BelowPipMinusT(tip_y, pip_y) ==
    \/ tip_y < pip_y - EXTENSION_TOLERANCE
    \/ tip_y = pip_y - EXTENSION_TOLERANCE /\ pip_y \in ExtendedTies

\* pip_y with  (pip_y - 15)/1000 > pip_y/1000 - 0.03 * 0.5  in doubles
ClosedTies ==
    {18} \cup {22} \cup {36} \cup (43..44) \cup (71..73) \cup (172..186) \cup
    (235..249) \cup (282..296) \cup (344..358) \cup (407..421) \cup
    (469..483) \cup (563..577) \cup (688..702) \cup (813..827) \cup (938..952)

\* "tip_y > pip_y - EXTENSION_TOLERANCE * 0.5"
AbovePipMinusHalfT(tip_y, pip_y) ==
    \/ tip_y > pip_y - HALF_TOLERANCE
    \/ tip_y = pip_y - HALF_TOLERANCE /\ pip_y \in ClosedTies

\* a with  a/1000 - (a + 30)/1000 > -0.03  in doubles
ThumbTies ==
    {21} \cup {29} \cup (41..42) \cup (56..58) \cup (111..117) \cup
    (252..281) \cup (314..343) \cup (377..406) \cup (439..468) \cup
    (533..562) \cup (658..687) \cup (783..812) \cup (908..937)

\* "(a - b) > -EXTENSION_TOLERANCE"
DiffAboveMinusT(a, b) ==
    \/ a - b > -EXTENSION_TOLERANCE
    \/ a - b = -EXTENSION_TOLERANCE /\ a \in ThumbTies

\* mcp_y with  (mcp_y + 120)/1000 < mcp_y/1000 + 0.12  in doubles
CurlTies ==
    (84..85) \cup (162..171) \cup {444} \cup {446} \cup {448} \cup {450} \cup
    {452} \cup {454} \cup {456} \cup {458} \cup {460} \cup {462} \cup
    {464} \cup {466} \cup {468}

\* "tip_y < mcp_y + 0.12"
BelowMcpPlusMargin(tip_y, mcp_y) ==
    \/ tip_y < mcp_y + THUMB_CURL_MARGIN
    \/ tip_y = mcp_y + THUMB_CURL_MARGIN /\ mcp_y \in CurlTies

\* last_switch with  (last_switch + 35)/100 - last_switch/100 < 0.35  in
\* doubles
CooldownTies ==
    {34} \cup (78..81) \cup (103..112) \cup (128..137) \cup (153..162) \cup
    {166} \cup {168} \cup {170} \cup {172} \cup {174} \cup {176} \cup
    {178} \cup {180} \cup {182} \cup {184} \cup {186} \cup {191} \cup
    {193} \cup {195} \cup {197} \cup {199} \cup {216} \cup {218} \cup
    {220} \cup {222} \cup {224} \cup {241} \cup {243} \cup {245} \cup
    {247} \cup {249} \cup {266} \cup {268} \cup {270} \cup {272} \cup
    {274} \cup {291} \cup {293} \cup {295} \cup {297} \cup {299} \cup
    {316} \cup {318} \cup {320} \cup {322} \cup {324} \cup {341} \cup
    {343} \cup {345} \cup {347} \cup {349} \cup (366..367) \cup
    (370..371) \cup (374..375) \cup {379} \cup {383} \cup {387} \cup
    (391..392) \cup (395..396) \cup (399..400) \cup (403..404) \cup
    (407..408) \cup (411..412) \cup (415..417) \cup (419..421) \cup
    (423..425) \cup (428..429) \cup (432..433) \cup (436..437) \cup
    (440..442) \cup (444..446) \cup (448..450) \cup (453..454) \cup
    (457..458) \cup (461..462) \cup (465..467) \cup (469..471) \cup
    (473..475) \cup (478..479) \cup (482..483) \cup (486..487) \cup
    (490..492) \cup (494..496) \cup (498..500) \cup (503..504) \cup
    (507..508) \cup (511..512) \cup (515..517) \cup (519..521) \cup
    (523..525) \cup (528..529) \cup (532..533) \cup (536..537) \cup
    (540..542) \cup (544..546) \cup (548..550) \cup (553..554) \cup
    (557..558) \cup (561..562) \cup (565..567) \cup (569..571) \cup
    (573..575) \cup (578..579) \cup (582..583) \cup (586..587) \cup
    (590..592) \cup (594..596) \cup (598..600)

\* "now - self._last_switch < SWITCH_COOLDOWN"
BelowCooldown(now, last_switch) ==
    \/ now - last_switch < SWITCH_COOLDOWN
    \/ now - last_switch = SWITCH_COOLDOWN /\ last_switch \in CooldownTies

\* ------------------------------------------------ per-finger predicates
_thumb_extended(lm) ==
    LET tip_x        == _x(lm, 4)
        ip_x         == _x(lm, 3)
        wrist_x      == _x(lm, 0)
        middle_mcp_x == _x(lm, 9)
        hand_side    == wrist_x - middle_mcp_x
        extended     == IF hand_side >= 0
                        THEN DiffAboveMinusT(ip_x, tip_x)
                        ELSE DiffAboveMinusT(tip_x, ip_x)
        tip_y        == _y(lm, 4)
        mcp_y        == _y(lm, 2)
        not_curled_under == BelowMcpPlusMargin(tip_y, mcp_y)
    IN  extended /\ not_curled_under

_finger_extended(lm, tip, pip, mcp) ==
    LET tip_y == _y(lm, tip)
        pip_y == _y(lm, pip)
        mcp_y == _y(lm, mcp)
    IN  BelowPipMinusT(tip_y, pip_y) /\ (tip_y < mcp_y)

_finger_closed_NotExtended(lm, tip, pip, mcp) == ~_finger_extended(lm, tip, pip, mcp)

_finger_closed(lm, tip, pip, mcp) ==
    AbovePipMinusHalfT(_y(lm, tip), _y(lm, pip))

\* ------------------------------------------------------- classification
\* The finger booleans _detect computes before it applies the rule table.
FingerState(lm) ==
    [thumb  |-> _thumb_extended(lm),
     index  |-> _finger_extended(lm, 8, 6, 5),
     middle |-> _finger_extended(lm, 12, 10, 9),
     ring   |-> _finger_extended(lm, 16, 14, 13),
     pinky  |-> _finger_extended(lm, 20, 18, 17),
     index_closed  |-> _finger_closed(lm, 8, 6, 5),
     middle_closed |-> _finger_closed(lm, 12, 10, 9),
     ring_closed   |-> _finger_closed(lm, 16, 14, 13),
     pinky_closed  |-> _finger_closed(lm, 20, 18, 17)]

\* Every vector of nine booleans: the domain of the rule table.
BooleanVectors ==
    [thumb : BOOLEAN, index : BOOLEAN, middle : BOOLEAN, ring : BOOLEAN,
     pinky : BOOLEAN, index_closed : BOOLEAN, middle_closed : BOOLEAN,
     ring_closed : BOOLEAN, pinky_closed : BOOLEAN]

\* The vectors lines 138-148 can compute: a finger is extended only with its
\* tip above pip - 0.03 and closed only with its tip below pip - 0.015, so
\* never both.
FingerStates ==
    {f \in BooleanVectors :
        /\ ~(f.index /\ f.index_closed)
        /\ ~(f.middle /\ f.middle_closed)
        /\ ~(f.ring /\ f.ring_closed)
        /\ ~(f.pinky /\ f.pinky_closed)}

\* The rule table with THREE_FINGERS tested before OPEN_PALM.
Classify_ThreeFirst(thumb, index, middle, ring, pinky, index_closed, middle_closed, ring_closed, pinky_closed) ==
    IF index /\ middle /\ ring THEN GESTURE_THREE_FINGERS
    ELSE IF thumb /\ index /\ middle /\ ring /\ pinky THEN GESTURE_OPEN_PALM
    ELSE IF index /\ middle /\ ring_closed /\ pinky_closed THEN GESTURE_PEACE
    ELSE IF index_closed /\ middle_closed /\ ring_closed /\ pinky_closed
         THEN GESTURE_FIST
    ELSE GESTURE_IDLE

\* The rule table with FIST tested before PEACE.
Classify_FistFirst(thumb, index, middle, ring, pinky, index_closed, middle_closed, ring_closed, pinky_closed) ==
    IF thumb /\ index /\ middle /\ ring /\ pinky THEN GESTURE_OPEN_PALM
    ELSE IF index /\ middle /\ ring THEN GESTURE_THREE_FINGERS
    ELSE IF index_closed /\ middle_closed /\ ring_closed /\ pinky_closed
         THEN GESTURE_FIST
    ELSE IF index /\ middle /\ ring_closed /\ pinky_closed THEN GESTURE_PEACE
    ELSE GESTURE_IDLE

\* The rule table of _detect, in the order the code tests it, on the nine
\* booleans the method computes first.
Classify(thumb, index, middle, ring, pinky, index_closed, middle_closed, ring_closed, pinky_closed) ==
    LET is_open_palm == thumb /\ index /\ middle /\ ring /\ pinky
        is_three     == index /\ middle /\ ring
        is_peace     == index /\ middle /\ ring_closed /\ pinky_closed
        is_fist      == index_closed /\ middle_closed /\ ring_closed
                        /\ pinky_closed
    IN  IF is_open_palm THEN GESTURE_OPEN_PALM
        ELSE IF is_three THEN GESTURE_THREE_FINGERS
        ELSE IF is_peace THEN GESTURE_PEACE
        ELSE IF is_fist THEN GESTURE_FIST
        ELSE GESTURE_IDLE

ClassifyState(f) ==
    Classify(f.thumb, f.index, f.middle, f.ring, f.pinky,
             f.index_closed, f.middle_closed, f.ring_closed, f.pinky_closed)

_detect(lm) ==
    Classify(_thumb_extended(lm),
             _finger_extended(lm, 8, 6, 5),
             _finger_extended(lm, 12, 10, 9),
             _finger_extended(lm, 16, 14, 13),
             _finger_extended(lm, 20, 18, 17),
             _finger_closed(lm, 8, 6, 5),
             _finger_closed(lm, 12, 10, 9),
             _finger_closed(lm, 16, 14, 13),
             _finger_closed(lm, 20, 18, 17))

\* ------------------------------------------------------------ test hands
\* Landmark lists the pose source can deliver, built finger by finger.
\* A non-thumb finger is <<MCP, PIP, DIP, TIP>>: "up" is extended, "down" is
\* closed, "half" lies in the dead zone (neither extended nor closed).
TipY(pose) == CASE pose = "up"   -> 350
                [] pose = "down" -> 560
                [] pose = "half" -> 480

FingerPts(x, pose) ==
    << <<x, 600, 0>>, <<x, 500, 0>>, <<x, TipY(pose), 0>>, <<x, TipY(pose), 0>> >>

\* The thumb is <<CMC, MCP, IP, TIP>>: "out" is abducted, "in" is folded.
ThumbPts(pose) ==
    << <<420, 820, 0>>, <<350, 750, 0>>, <<300, 700, 0>>,
       IF pose = "out" THEN <<250, 650, 0>> ELSE <<400, 700, 0>> >>

Hand(t, i, m, r, p) ==
    << <<500, 900, 0>> >> \o ThumbPts(t) \o FingerPts(400, i)
       \o FingerPts(480, m) \o FingerPts(560, r) \o FingerPts(640, p)

HandOpenPalm == Hand("out", "up", "up", "up", "up")
HandThree    == Hand("in", "up", "up", "up", "down")
HandPeace    == Hand("in", "up", "up", "down", "down")
HandFist     == Hand("in", "down", "down", "down", "down")
HandPoint    == Hand("in", "up", "down", "down", "down")
HandHalf     == Hand("in", "up", "up", "half", "down")

\* What update() can be handed: a full hand, no hand, a truncated list, and a
\* list with one landmark too many.
Frames ==
    {HandOpenPalm, HandThree, HandPeace, HandFist, HandPoint, HandHalf,
     << >>, SubSeq(HandFist, 1, 20), HandOpenPalm \o << <<500, 500, 0>> >>}

\* --------------------------------------------------- GestureController
\* The controller object as a record.
Self ==
    [gesture_hold   |-> _gesture_hold,
     hold_frames    |-> _hold_frames,
     active_gesture |-> _active_gesture,
     last_switch    |-> _last_switch,
     frame_count    |-> _frame_count]

\* GestureController.__init__
InitController_StampNow ==
    /\ _gesture_hold = GESTURE_IDLE
    /\ _hold_frames = 0
    /\ _active_gesture = None
    /\ _last_switch = ClockStart
    /\ _frame_count = 0

InitController ==
    /\ _gesture_hold = GESTURE_IDLE
    /\ _hold_frames = 0
    /\ _active_gesture = None
    /\ _last_switch = 0
    /\ _frame_count = 0

\* "if not landmarks or len(landmarks) < 21"
NoHand(landmarks) == Len(landmarks) = 0 \/ Len(landmarks) < LANDMARK_COUNT

\* "return config.GESTURE_IDLE" of the no-hand branch: nothing else happens.
NoHandResult_Reset(self) ==
    [self |-> [self EXCEPT !.hold_frames = 0], ret |-> GESTURE_IDLE]

NoHandResult_Clear(self) ==
    [self |-> [self EXCEPT !.active_gesture = None], ret |-> GESTURE_IDLE]

NoHandResult(self) == [self |-> self, ret |-> GESTURE_IDLE]

\* the frame-stability counter
HoldStep_NoReset(self, raw_gesture) ==
    [self EXCEPT !.gesture_hold = raw_gesture, !.hold_frames = @ + 1]

HoldStep(self, raw_gesture) ==
    IF raw_gesture = self.gesture_hold
    THEN [self EXCEPT !.hold_frames = @ + 1]
    ELSE [self EXCEPT !.gesture_hold = raw_gesture, !.hold_frames = 1]

\* "if self._hold_frames < GESTURE_STABILITY_FRAMES"
Unstable_Debounce(hold_frames) == hold_frames < DEBOUNCE_FRAMES

Unstable(hold_frames) == hold_frames < GESTURE_STABILITY_FRAMES

\* "if raw_gesture == self._active_gesture"
AlreadyActive_Never(raw_gesture, active_gesture) == FALSE

AlreadyActive(raw_gesture, active_gesture) == raw_gesture = active_gesture

\* "if now - self._last_switch < SWITCH_COOLDOWN"
CoolingDown_Inclusive(now, last_switch) == now - last_switch <= SWITCH_COOLDOWN

\* the guard with config.GESTURE_COOLDOWN (0.25 s) in place of SWITCH_COOLDOWN
CoolingDown_Config(now, last_switch) == now - last_switch < 25

CoolingDown(now, last_switch) == BelowCooldown(now, last_switch)

\* "CONFIRMED: new, stable, different gesture"
Confirm(self, raw_gesture, now) ==
    [self |-> [self EXCEPT !.last_switch = now, !.active_gesture = raw_gesture],
     ret  |-> raw_gesture]

\* update() from the IDLE test to the confirmed return, on the controller as
\* the counter step left it.
Decide_DropSuppressed(self, raw_gesture, now) ==
    IF raw_gesture = GESTURE_IDLE THEN [self |-> self, ret |-> GESTURE_IDLE]
    ELSE IF Unstable(self.hold_frames) THEN [self |-> self, ret |-> GESTURE_IDLE]
    ELSE IF AlreadyActive(raw_gesture, self.active_gesture)
         THEN [self |-> self, ret |-> GESTURE_IDLE]
    ELSE IF CoolingDown(now, self.last_switch)
         THEN [self |-> [self EXCEPT !.active_gesture = raw_gesture], ret |-> GESTURE_IDLE]
    ELSE Confirm(self, raw_gesture, now)

Decide(self, raw_gesture, now) ==
    IF raw_gesture = GESTURE_IDLE THEN [self |-> self, ret |-> GESTURE_IDLE]
    ELSE IF Unstable(self.hold_frames) THEN [self |-> self, ret |-> GESTURE_IDLE]
    ELSE IF AlreadyActive(raw_gesture, self.active_gesture)
         THEN [self |-> self, ret |-> GESTURE_IDLE]
    ELSE IF CoolingDown(now, self.last_switch)
         THEN [self |-> self, ret |-> GESTURE_IDLE]
    ELSE Confirm(self, raw_gesture, now)

\* GestureController.update(landmarks, width, height, dt): the controller
\* after the call and the value returned.  `now` is what time.time() returns
\* during the call; width, height and dt are never read by the method.
update(self, landmarks, now) ==
    LET counted == [self EXCEPT !.frame_count = @ + 1]
    IN  IF NoHand(landmarks)
        THEN NoHandResult(counted)
        ELSE LET raw_gesture == CHOOSE g \in {_detect(landmarks)} : TRUE
             IN  Decide(HoldStep(counted, raw_gesture), raw_gesture, now)

\* update() gets as far as "now = time.time()" (line 86): only then is the
\* clock read during the call.
ReadsClock(self, landmarks) ==
    /\ ~NoHand(landmarks)
    /\ \E raw_gesture \in {_detect(landmarks)} :
        \E counted \in {HoldStep(self, raw_gesture)} :
            /\ raw_gesture # GESTURE_IDLE
            /\ ~Unstable(counted.hold_frames)
            /\ ~AlreadyActive(raw_gesture, counted.active_gesture)

\* ------------------------------------------------------------- history
\* What a run of calls looked like, recorded beside the controller and never
\* read by it.  ret is None for a call that raised instead of returning.
Observe(landmarks, now, ret) ==
    LET n          == Len(landmarks)
        classified == n >= LANDMARK_COUNT
    IN  \E label \in {IF classified THEN _detect(landmarks) ELSE "NOHAND"} :
        LET same == classified /\ label = runLabel IN
        /\ calls' = calls + 1
        /\ clock' = now
        /\ nlm' = n
        /\ out' = ret
        /\ raw' = IF NoHand(landmarks) THEN "NOHAND" ELSE label
        /\ fingers' = IF NoHand(landmarks) THEN fingers ELSE FingerState(landmarks)
        /\ run' = IF ~classified THEN run ELSE IF same THEN run + 1 ELSE 1
        /\ runLabel' = IF classified THEN label ELSE runLabel
        /\ consec' = IF ~classified THEN 0
                     ELSE IF same /\ consec > 0 THEN consec + 1 ELSE 1
        /\ uni' = IF n < LANDMARK_COUNT THEN uni
                  ELSE IF n > LANDMARK_COUNT THEN "MIXED"
                  ELSE IF uni = None \/ uni = label THEN label
                  ELSE "MIXED"
        /\ lastEmit' = IF ret \in {GESTURE_IDLE, None} THEN lastEmit ELSE ret
        /\ emitTime' = IF ret \in {GESTURE_IDLE, None} THEN emitTime ELSE now
        /\ emits' = IF ret \in {GESTURE_IDLE, None} THEN emits ELSE emits + 1

\* ------------------------------------------------------ visual entities
\* The four entity classes of the gesture map.
EntityClasses == {"MilkyWay", "Nebula", "EnergyOrb", "Flower"}

\* The value of a reference that holds no entity (Python's None), in the
\* shape of an entity so that the two compare.
NoObject == [id |-> 0, cls |-> None, age |-> 0, exact |-> TRUE]

\* object_class(): every constructor sets age = 0.0; id is the identity of
\* the new instance.  age is a double: the field age is its value rounded to
\* hundredths of a second, and exact tells that the double is that decimal
\* value exactly.
NewEntity(object_class, id) == [id |-> id, cls |-> object_class, age |-> 0, exact |-> TRUE]

\* dt values that are doubles exactly and that "self.age += dt" adds without
\* rounding: the multiples of 0.25 s.
ExactDt(dt) == dt % 25 = 0

\* "return self.age < 22.0" on the aged entity e: the flags the comparison
\* of doubles can give.  Off 22 s the hundredths decide.  At 22 s an exact
\* age is 22.0 and the flag is False; an age that went through rounded sums
\* is the double just below, at or just above 22.0 (109 times 0.2 and 0.2
\* more is 21.999999999999954), which the hundredths do not tell apart.
AliveFlags(e) ==
    IF e.age < ENTITY_LIFETIME THEN {TRUE}
    ELSE IF e.age > ENTITY_LIFETIME THEN {FALSE}
    ELSE IF e.exact THEN {FALSE}
    ELSE {TRUE, FALSE}

\* entity.update(dt): the aged entity and the alive flags the call can
\* return.  Flower and EnergyOrb return age < 22.0, MilkyWay and Nebula
\* return True.
EntityUpdate(e, dt) ==
    LET aged == [e EXCEPT !.age = @ + dt, !.exact = @ /\ ExactDt(dt)]
    IN  [obj |-> aged,
         ret |-> IF e.cls \in {"Flower", "EnergyOrb"} THEN AliveFlags(aged) ELSE {TRUE}]

\* ------------------------------------------------------- ObjectManager
\* The manager object as a record.
Om == [current_object |-> current_object, current_gesture |-> current_gesture]

\* ObjectManager.__init__
InitObjectManager ==
    /\ current_object = NoObject
    /\ current_gesture = None

\* "if gesture_name == self.current_gesture and self.current_object is not None"
SameGesture_LabelOnly(om, gesture_name) == gesture_name = om.current_gesture

SameGesture_Never(om, gesture_name) == FALSE

SameGesture(om, gesture_name) ==
    gesture_name = om.current_gesture /\ om.current_object # NoObject

\* "New gesture -> replace object": the constructor runs first; when it
\* raises (ok = FALSE) neither assignment is made and the exception leaves
\* spawn().
Replace_LabelFirst(om, gesture_name, object_class, id, ok) ==
    IF ok
    THEN [om  |-> [current_object  |-> NewEntity(object_class, id),
                   current_gesture |-> gesture_name],
          ret |-> "True", constructed |-> 1]
    ELSE [om  |-> [om EXCEPT !.current_gesture = gesture_name],
          ret |-> "raised", constructed |-> 1]

Replace_DropFirst(om, gesture_name, object_class, id, ok) ==
    IF ok
    THEN [om  |-> [current_object  |-> NewEntity(object_class, id),
                   current_gesture |-> gesture_name],
          ret |-> "True", constructed |-> 1]
    ELSE [om  |-> [om EXCEPT !.current_object = NoObject],
          ret |-> "raised", constructed |-> 1]

Replace_KeepLabel(om, gesture_name, object_class, id, ok) ==
    IF ok
    THEN [om  |-> [om EXCEPT !.current_object = NewEntity(object_class, id)],
          ret |-> "True", constructed |-> 1]
    ELSE [om |-> om, ret |-> "raised", constructed |-> 1]

Replace(om, gesture_name, object_class, id, ok) ==
    IF ok
    THEN [om  |-> [current_object  |-> NewEntity(object_class, id),
                   current_gesture |-> gesture_name],
          ret |-> "True", constructed |-> 1]
    ELSE [om |-> om, ret |-> "raised", constructed |-> 1]

\* ObjectManager.spawn(gesture_name, object_class): the manager after the
\* call, what the call returned ("True", "False", or "raised" when the
\* constructor raised) and how many constructors it invoked.  id is the
\* identity a new instance gets.
spawn(om, gesture_name, object_class, id, ok) ==
    IF SameGesture(om, gesture_name)
    THEN [om |-> om, ret |-> "False", constructed |-> 0]
    ELSE Replace(om, gesture_name, object_class, id, ok)

\* ObjectManager.update(dt): the entity's update() runs, its alive flag is
\* ignored.
om_update_Expire(om, dt) ==
    IF om.current_object # NoObject
    THEN IF TRUE \in EntityUpdate(om.current_object, dt).ret
         THEN [om EXCEPT !.current_object = EntityUpdate(@, dt).obj]
         ELSE [current_object |-> NoObject, current_gesture |-> None]
    ELSE om

om_update(om, dt) ==
    IF om.current_object # NoObject
    THEN [om EXCEPT !.current_object = EntityUpdate(@, dt).obj]
    ELSE om

\* ObjectManager.draw(): the identity of the entity drawn, 0 when none is;
\* drawing changes neither the manager nor the entity.
om_draw(om) ==
    IF om.current_object # NoObject THEN om.current_object.id ELSE 0

\* ObjectManager.clear()
clear_KeepLabel(om) == [om EXCEPT !.current_object = NoObject]

clear(om) == [current_object |-> NoObject, current_gesture |-> None]

\* The entities the manager still refers to; an entity nothing refers to is
\* gone.
Live == IF current_object = NoObject THEN {} ELSE {current_object.id}

NoOp == [name |-> None, label |-> None, cls |-> None, ret |-> None]

InitScene ==
    /\ InitObjectManager
    /\ made = 0
    /\ sceneCalls = 0
    /\ lastOp = NoOp

\* -------------------------------------------------------- the frame loop
\* CinematicUniverse3D.gesture_map
gesture_map_Swapped == (GESTURE_THREE_FINGERS :> "MilkyWay") @@ (GESTURE_OPEN_PALM :> "Nebula") @@ (GESTURE_FIST :> "Flower") @@ (GESTURE_PEACE :> "EnergyOrb")
gesture_map == (GESTURE_THREE_FINGERS :> "MilkyWay") @@ (GESTURE_OPEN_PALM :> "Nebula") @@ (GESTURE_FIST :> "EnergyOrb") @@ (GESTURE_PEACE :> "Flower")

\* handle_gestures after the update() call: `gesture` is what update()
\* returned.  ret is what spawn returned, None when spawn was not called.
\* The four mapped constructors take no argument and read no device.
Dispatch(om, gesture, id) ==
    IF gesture = GESTURE_IDLE \/ gesture \notin DOMAIN gesture_map
    THEN [om |-> om, ret |-> None, constructed |-> 0]
    ELSE spawn(om, gesture, gesture_map[gesture], id, TRUE)

\* What camera.get_frame() does in a tick: returns a frame, returns None, or
\* raises out of cap.read() / cv2.flip.
FrameOutcomes == {"frame", "none", "raise"}
\* What hand_tracker.process_frame(frame) does: returns landmarks ([] when no
\* hand is found), or raises out of cv2.cvtColor / hands.process.
PoseOutcomes == {"landmarks", "raise"}
\* The calls after handle_gestures that reach a device and can raise:
\* renderer.pre_render() (glClear, line 114), the draw() of the entity (line
\* 115), renderer.post_render() (pygame.display.flip, line 116) and
\* clock.tick (line 119).  The constructors and update() of the entities are
\* arithmetic.
RaisePoints == {"pre_render", "draw", "post_render", "tick"}
\* How the finally block (lines 125-128) can end: TRUE when camera.release(),
\* hand_tracker.release() and pygame.quit() all ran; FALSE when
\* camera.release() raised (cap.release(), or the print of camera.py line
\* 66), which skips the two calls after it.
ReleaseOutcomes == {TRUE, FALSE}
\* The landmark lists process_frame returns: empty or 21 points (an open
\* palm, a peace sign, a fist).
LoopFrames == {HandOpenPalm, HandPeace, HandFist, << >>}

NoTick == [quit |-> FALSE, frame |-> None, pose |-> None, gesture |-> None, spawn |-> None, error |-> FALSE, steps |-> << >>]

\* CinematicUniverse3D.__init__, lines 67-68, and the entry of run()
InitLoop ==
    /\ running = TRUE
    /\ last_time = ClockStart
    /\ pc = "loop"
    /\ released = FALSE
    /\ tick = NoTick
    /\ story = "start"

\* The history of raw labels after one more update() call.
StoryStep(st, before, raw_label) ==
    CASE st = "start" -> IF raw_label = GESTURE_OPEN_PALM THEN "open" ELSE "off"
      [] st = "open"  -> IF raw_label = GESTURE_OPEN_PALM THEN "open"
                         ELSE IF raw_label = GESTURE_FIST /\ before >= GESTURE_STABILITY_FRAMES
                              THEN "fist" ELSE "off"
      [] st = "fist"  -> IF raw_label = GESTURE_FIST THEN "fist" ELSE "off"
      [] OTHER        -> "off"

\* ------------------------------------------- variables of the other runs
NoMirror == [thumb |-> FALSE, gesture |-> None]

InitGeometry == hand = << >> /\ mirror = NoMirror

InitPersist == target = None /\ held = 0 /\ drops = 0

\* no set_active_gesture() call yet
NoSet == [gesture |-> None, previous |-> None, sets |-> 0, at |-> 0, clock |-> 0]

InitSetter == lastSet = NoSet

InitMore == InitGeometry /\ InitPersist /\ InitSetter

\* --------------------------------------------------------------- actions
\* One call of update() on the controller.
Update(landmarks, now) ==
    \E r \in {update(Self, landmarks, now)} :
        /\ _frame_count < MaxCalls
        /\ _gesture_hold' = r.self.gesture_hold
        /\ _hold_frames' = r.self.hold_frames
        /\ _active_gesture' = r.self.active_gesture
        /\ _last_switch' = r.self.last_switch
        /\ _frame_count' = r.self.frame_count
        /\ Observe(landmarks, now, r.ret)

\* One call of update() that confirms a switch and raises in
\* print("GESTURE DETECTED: ...") (line 93): _last_switch and _active_gesture
\* are assigned (lines 91-92), nothing is returned.
UpdateRaises(landmarks, now) ==
    \E r \in {update(Self, landmarks, now)} :
        /\ _frame_count < MaxCalls
        /\ r.ret # GESTURE_IDLE
        /\ _gesture_hold' = r.self.gesture_hold
        /\ _hold_frames' = r.self.hold_frames
        /\ _active_gesture' = r.self.active_gesture
        /\ _last_switch' = r.self.last_switch
        /\ _frame_count' = r.self.frame_count
        /\ Observe(landmarks, now, None)

\* GestureController.set_active_gesture(gesture_name)
SetActiveGesture_Restart(gesture_name) ==
    /\ _active_gesture' = gesture_name
    /\ _hold_frames' = 0
    /\ UNCHANGED <<_gesture_hold, _last_switch, _frame_count>>
    /\ UNCHANGED obs_vars
    /\ UNCHANGED hist_vars
    /\ UNCHANGED scene_vars
    /\ UNCHANGED loop_vars
    /\ UNCHANGED more_vars

SetActiveGesture_Stamp(gesture_name) ==
    /\ _active_gesture' = gesture_name
    /\ _last_switch' = clock
    /\ UNCHANGED <<_gesture_hold, _hold_frames, _frame_count>>
    /\ UNCHANGED obs_vars
    /\ UNCHANGED hist_vars
    /\ UNCHANGED scene_vars
    /\ UNCHANGED loop_vars
    /\ UNCHANGED more_vars

SetActiveGesture(gesture_name) ==
    /\ _active_gesture' = gesture_name
    /\ UNCHANGED <<_gesture_hold, _hold_frames, _last_switch, _frame_count>>
    /\ UNCHANGED obs_vars
    /\ UNCHANGED hist_vars
    /\ UNCHANGED scene_vars
    /\ UNCHANGED loop_vars
    /\ UNCHANGED more_vars

NoFingers == [n \in {"thumb", "index", "middle", "ring", "pinky",
                     "index_closed", "middle_closed", "ring_closed",
                     "pinky_closed"} |-> FALSE]

InitHistory ==
    /\ calls = 0
    /\ run = 0
    /\ runLabel = None
    /\ consec = 0
    /\ uni = None
    /\ lastEmit = None
    /\ emitTime = 0
    /\ emits = 0

Init ==
    /\ InitController
    /\ clock = ClockStart
    /\ out = None
    /\ raw = None
    /\ fingers = NoFingers
    /\ nlm = 0
    /\ InitHistory
    /\ InitScene
    /\ InitLoop
    /\ InitMore

\* One tick of input: the clock has advanced by d when update() is called.
Frame ==
    \E landmarks \in Frames, d \in ClockSteps :
        /\ clock + d <= ClockStart + MaxElapsed
        /\ Update(landmarks, clock + d)
        /\ UNCHANGED scene_vars
        /\ UNCHANGED loop_vars
        /\ UNCHANGED more_vars
        /\ UNCHANGED set_vars

Next == Frame

Spec == Init /\ [][Next]_vars

\* ------------------------------------------------ the classifier alone
\* The rule table applied to every vector of finger booleans.
InitClassify ==
    /\ InitController
    /\ clock = ClockStart
    /\ out = None
    /\ raw = None
    /\ fingers \in FingerStates
    /\ nlm = 0
    /\ InitHistory
    /\ InitScene
    /\ InitLoop
    /\ InitMore

ClassifyStep ==
    /\ raw = None
    /\ raw' = ClassifyState(fingers)
    /\ UNCHANGED <<_gesture_hold, _hold_frames, _active_gesture, _last_switch,
                   _frame_count, clock, out, fingers, nlm>>
    /\ UNCHANGED hist_vars
    /\ UNCHANGED scene_vars
    /\ UNCHANGED loop_vars
    /\ UNCHANGED more_vars
    /\ UNCHANGED set_vars

SpecClassify == InitClassify /\ [][ClassifyStep]_vars

\* -------------------------------------------- the ObjectManager alone
\* Any sequence of spawn, update, draw and clear calls on one manager.
SceneCall(name, label, cls, ret) ==
    /\ sceneCalls < MaxSceneCalls
    /\ sceneCalls' = sceneCalls + 1
    /\ lastOp' = [name |-> name, label |-> label, cls |-> cls, ret |-> ret]
    /\ UNCHANGED fsm_vars
    /\ UNCHANGED obs_vars
    /\ UNCHANGED hist_vars
    /\ UNCHANGED loop_vars
    /\ UNCHANGED more_vars
    /\ UNCHANGED set_vars

Spawn ==
    \E gesture_name \in Labels, object_class \in EntityClasses, ok \in BOOLEAN :
        \E r \in {spawn(Om, gesture_name, object_class, made + 1, ok)} :
            /\ current_object' = r.om.current_object
            /\ current_gesture' = r.om.current_gesture
            /\ made' = made + r.constructed
            /\ SceneCall("spawn", gesture_name, object_class, r.ret)

OmUpdate ==
    \E dt \in SceneDts :
        \E om \in {om_update(Om, dt)}, alive \in EntityUpdate(current_object, dt).ret :
            /\ current_object.age + dt <= MaxAge
            /\ current_object' = om.current_object
            /\ current_gesture' = om.current_gesture
            /\ made' = made
            /\ SceneCall("update", None, None,
                         IF current_object = NoObject THEN None
                         ELSE IF alive THEN "True" ELSE "False")

OmDraw ==
    /\ UNCHANGED <<current_object, current_gesture, made>>
    /\ SceneCall("draw", None, None, IF om_draw(Om) = 0 THEN None ELSE "drawn")

OmClear ==
    \E om \in {clear(Om)} :
        /\ current_object' = om.current_object
        /\ current_gesture' = om.current_gesture
        /\ made' = made
        /\ SceneCall("clear", None, None, None)

NextScene == Spawn \/ OmUpdate \/ OmDraw \/ OmClear

SpecScene == Init /\ [][NextScene]_vars

\* ------------------------------------------------------ the frame loop
\* The while test after an iteration and, when the loop is left, the
\* finally block (lines 125-128), which may itself be cut short.
LoopExit(leave) ==
    /\ pc' = IF leave THEN "done" ELSE "loop"
    /\ released' \in IF leave THEN ReleaseOutcomes ELSE {FALSE}

\* An iteration in which pygame.event.get() raised: no event was handled and
\* no other call was made.
TickEventsRaise(now) ==
    /\ clock' = now
    /\ UNCHANGED <<out, raw, fingers, nlm>>
    /\ UNCHANGED fsm_vars
    /\ UNCHANGED hist_vars
    /\ UNCHANGED scene_vars
    /\ story' = story
    /\ tick' = [quit |-> FALSE, frame |-> None, pose |-> None, gesture |-> None, spawn |-> None, error |-> TRUE, steps |-> << >>]
    /\ LoopExit(TRUE)

\* An iteration cut short by an exception of get_frame() or process_frame():
\* `except Exception` (line 121) catches it outside the while loop, so the
\* loop is left.
TickRaises(now, quit, frame, pose) ==
    /\ clock' = now
    /\ UNCHANGED <<out, raw, fingers, nlm>>
    /\ UNCHANGED fsm_vars
    /\ UNCHANGED hist_vars
    /\ UNCHANGED scene_vars
    /\ story' = story
    /\ tick' = [quit |-> quit, frame |-> frame, pose |-> IF frame = "raise" THEN None ELSE pose, gesture |-> None, spawn |-> None, error |-> TRUE,
                steps |-> IF frame = "raise" THEN << <<"get_frame", 0>> >>
                          ELSE << <<"get_frame", 0>>, <<"process_frame", 0>> >>]
    /\ LoopExit(TRUE)

\* object_manager.update(dt), pre_render, object_manager.draw(), post_render
\* (lines 111-116) on the manager `om`.
UpdateAndDraw(om, dt) ==
    \E after \in {om_update(om, dt)} :
        /\ current_object' = after.current_object
        /\ current_gesture' = after.current_gesture
        /\ UNCHANGED <<sceneCalls, lastOp>>

\* The calls of lines 111-115 that were made when the call named by raises
\* raised (None: no call raised): pre_render raises before draw is called.
RenderSteps(om, raises) ==
    IF raises = "pre_render"
    THEN << <<"om_update", om.current_object.id>> >>
    ELSE << <<"om_update", om.current_object.id>>, <<"draw", om_draw(om)>> >>

\* Whether the call named by raises can raise with the manager om: the
\* entity's draw() is called only when there is an entity.
CanRaise(om, raises) == raises = "draw" => om.current_object # NoObject

\* How lines 111-119 can end with the manager om: whether a call raised and
\* the calls made until then.
RenderOutcomes(om) ==
    {[error |-> raises # None, steps |-> RenderSteps(om, raises)] :
        raises \in {r \in RaisePoints \cup {None} : CanRaise(om, r)}}

\* An iteration in which get_frame() returned None: lines 107-108 are
\* skipped.  When a later call raises, the calls before it have taken effect
\* and the loop is left through `except Exception` (line 121).
TickNoFrame(now, dt, quit) ==
    /\ clock' = now
    /\ UNCHANGED <<out, raw, fingers, nlm>>
    /\ UNCHANGED fsm_vars
    /\ UNCHANGED hist_vars
    /\ story' = story
    /\ made' = made
    /\ UpdateAndDraw(Om, dt)
    /\ \E render \in RenderOutcomes(Om) :
        /\ tick' = [quit |-> quit, frame |-> "none", pose |-> None, gesture |-> None, spawn |-> None, error |-> render.error,
                    steps |-> << <<"get_frame", 0>> >> \o render.steps]
        /\ LoopExit(quit \/ render.error)

\* handle_gestures after update() returned `gesture`: what Dispatch does, or,
\* for a mapped label, what is left when a print on the way raises (each
\* writes to stdout): print("ACTION: ...") between update() and spawn (main.py
\* line 88), with the manager as it was, or print("SCENE: spawned ...") in
\* spawn after both assignments (object_manager.py line 36), with the new
\* entity installed.  raised tells whether the call raised; ret is "raised"
\* when spawn itself did.
HandleOutcomes(om, gesture, id) ==
    LET s      == Dispatch(om, gesture, id)
        mapped == gesture # GESTURE_IDLE /\ gesture \in DOMAIN gesture_map
    IN  {[om |-> s.om, ret |-> s.ret, constructed |-> s.constructed, raised |-> FALSE]}
        \cup (IF mapped
              THEN {[om |-> om, ret |-> None, constructed |-> 0, raised |-> TRUE]}
              ELSE {})
        \cup (IF s.ret = "True"
              THEN {[om |-> s.om, ret |-> "raised", constructed |-> s.constructed, raised |-> TRUE]}
              ELSE {})

\* The steps of an iteration up to the end of handle_gestures.
HandleSteps(h) ==
    << <<"get_frame", 0>>, <<"process_frame", 0>>, <<"update", 0>> >>
    \o (IF h.ret = None THEN << >> ELSE << <<"spawn", h.om.current_object.id>> >>)

\* An iteration with a frame and landmarks in which update() raises at its
\* print (line 93): the controller has switched, handle_gestures goes no
\* further and the loop is left through `except Exception` (line 121).
TickUpdateRaises(now, lag, quit, landmarks) ==
    /\ UpdateRaises(landmarks, now + lag)
    /\ story' = StoryStep(story, run, raw')
    /\ UNCHANGED scene_vars
    /\ tick' = [quit |-> quit, frame |-> "frame", pose |-> "landmarks", gesture |-> None, spawn |-> None, error |-> TRUE,
                steps |-> << <<"get_frame", 0>>, <<"process_frame", 0>>, <<"update", 0>> >>]
    /\ LoopExit(TRUE)

\* An iteration with a frame and landmarks: handle_gestures, then update and
\* draw.  update() reads the clock again (line 86), lag after the reading
\* `now` of run(): the cooldown test and _last_switch use the later reading,
\* dt and last_time the earlier one.  When a call raises, the calls before it
\* have taken effect, those after it are not made and the loop is left
\* through `except Exception` (line 121).
TickFrame(now, lag, dt, quit, landmarks) ==
    /\ Update(landmarks, now + lag)
    /\ story' = StoryStep(story, run, raw')
    /\ \E s \in HandleOutcomes(Om, out', made + 1) :
        /\ made' = made + s.constructed
        /\ IF s.raised
           THEN /\ current_object' = s.om.current_object
                /\ current_gesture' = s.om.current_gesture
                /\ UNCHANGED <<sceneCalls, lastOp>>
                /\ tick' = [quit |-> quit, frame |-> "frame", pose |-> "landmarks", gesture |-> out', spawn |-> s.ret, error |-> TRUE,
                            steps |-> HandleSteps(s)]
                /\ LoopExit(TRUE)
           ELSE /\ UpdateAndDraw(s.om, dt)
                /\ \E render \in RenderOutcomes(s.om) :
                    /\ tick' = [quit |-> quit, frame |-> "frame", pose |-> "landmarks", gesture |-> out', spawn |-> s.ret, error |-> render.error,
                                steps |-> HandleSteps(s) \o render.steps]
                    /\ LoopExit(quit \/ render.error)

\* An iteration of the while loop of run() in which pygame.event.get() returns,
\* with the while test that follows it.  The clock has advanced by d since the
\* latest reading when run() reads it, and by lag more when update() reads it
\* (lag is 0 in an iteration in which update() does not); quit tells whether
\* the event queue holds QUIT or Escape.  Of the calls that can raise, the
\* first one that does ends the iteration.
Iteration ==
    \E d \in LoopSteps, lag \in LoopLags, quit \in BOOLEAN, frame \in FrameOutcomes, pose \in PoseOutcomes, landmarks \in LoopFrames :
        LET now == clock + d
            dt  == now - last_time
        IN  /\ pc = "loop"
            /\ running
            /\ now + lag <= ClockStart + MaxElapsed
            /\ frame # "frame" => pose = "landmarks"
            /\ (frame # "frame" \/ pose = "raise") => landmarks = << >>
            /\ lag # 0 => (frame = "frame" /\ pose = "landmarks" /\ ReadsClock(Self, landmarks))
            /\ last_time' = now
            /\ running' = ~quit
            /\ UNCHANGED more_vars
            /\ UNCHANGED set_vars
            /\ CASE frame = "raise" -> TickRaises(now, quit, frame, pose)
                  [] frame = "none"  -> TickNoFrame(now, dt, quit)
                  [] frame = "frame" /\ pose = "raise" -> TickRaises(now, quit, frame, pose)
                  [] OTHER -> \/ TickFrame(now, lag, dt, quit, landmarks)
                              \/ TickUpdateRaises(now, lag, quit, landmarks)

\* An iteration of the while loop in which pygame.event.get() (line 100)
\* raises: last_time is set, nothing else is done and the loop is left.
EventsRaise ==
    \E d \in LoopSteps :
        /\ pc = "loop"
        /\ running
        /\ clock + d <= ClockStart + MaxElapsed
        /\ last_time' = clock + d
        /\ running' = running
        /\ UNCHANGED more_vars
        /\ UNCHANGED set_vars
        /\ TickEventsRaise(clock + d)

\* One iteration of the while loop of run().
Tick == Iteration \/ EventsRaise

NextLoop == Tick

SpecLoop == Init /\ [][NextLoop]_vars

\* ------------------------------------------ one label shown for good
\* One call of update(), however many were made before.
UpdateCall(landmarks, now) ==
    \E r \in {update(Self, landmarks, now)} :
        /\ _gesture_hold' = r.self.gesture_hold
        /\ _hold_frames' = r.self.hold_frames
        /\ _active_gesture' = r.self.active_gesture
        /\ _last_switch' = r.self.last_switch
        /\ _frame_count' = r.self.frame_count
        /\ Observe(landmarks, now, r.ret)

LeadFrames == {HandOpenPalm}

\* A hand that shows the label.
HandOf(label) ==
    CASE label = GESTURE_OPEN_PALM     -> HandOpenPalm
      [] label = GESTURE_THREE_FINGERS -> HandThree
      [] label = GESTURE_PEACE         -> HandPeace
      [] label = GESTURE_FIST          -> HandFist

PersistRest ==
    /\ UNCHANGED scene_vars
    /\ UNCHANGED loop_vars
    /\ UNCHANGED geo_vars
    /\ UNCHANGED set_vars

\* Calls before the label is shown for good: open hands.
Lead ==
    \E landmarks \in LeadFrames, d \in LoopSteps :
        /\ target = None
        /\ calls < MaxLead
        /\ UpdateCall(landmarks, clock + d)
        /\ UNCHANGED persist_vars
        /\ PersistRest

\* A call with a hand showing the label; the first such call fixes the
\* label, which is not the active gesture.
HeldHand ==
    \E label \in (IF target = None THEN Actionable \ {_active_gesture} ELSE {target}), d \in HeldSteps :
        /\ held < MaxHeld
        /\ UpdateCall(HandOf(label), clock + d)
        /\ target' = label
        /\ held' = held + 1
        /\ drops' = drops
        /\ PersistRest

\* A call with no hand between those hands.
HeldDrop ==
    \E d \in HeldSteps :
        /\ target # None
        /\ drops < MaxDrops
        /\ UpdateCall(<< >>, clock + d)
        /\ drops' = drops + 1
        /\ UNCHANGED <<target, held>>
        /\ PersistRest

NextPersist == Lead \/ HeldHand \/ HeldDrop

\* Hands keep arriving.
SpecPersist == Init /\ [][NextPersist]_vars /\ WF_vars(HeldHand)

\* ------------------------------- update() and set_active_gesture() calls
SetterFrames == {HandOpenPalm, HandFist}
SetterGestures == {GESTURE_OPEN_PALM, GESTURE_FIST, GESTURE_PEACE}

SetterFrame ==
    \E landmarks \in SetterFrames, d \in LoopSteps :
        /\ clock + d <= ClockStart + MaxElapsed
        /\ Update(landmarks, clock + d)
        /\ UNCHANGED scene_vars
        /\ UNCHANGED loop_vars
        /\ UNCHANGED more_vars
        /\ UNCHANGED set_vars

\* A caller informs the controller of the gesture on display.
SetterCall ==
    \E gesture_name \in SetterGestures :
        /\ lastSet.sets < MaxSets
        /\ SetActiveGesture(gesture_name)
        /\ lastSet' = [gesture |-> gesture_name, previous |-> _active_gesture, sets |-> lastSet.sets + 1, at |-> calls, clock |-> clock]

NextSetter == SetterFrame \/ SetterCall

SpecSetter == Init /\ [][NextSetter]_vars

\* ------------------------------------------------- the geometry alone
\* One finger as <<MCP, PIP, DIP, TIP>> with its y coordinates given.
FingerAt(x, mcp_y, pip_y, tip_y) ==
    << <<x, mcp_y, 0>>, <<x, pip_y, 0>>, <<x, tip_y, 0>>, <<x, tip_y, 0>> >>

FingerPoses == {"up", "down", "half"}

\* Every hand whose four fingers are each up, down or half curled.
PoseHands ==
    {Hand(t, i, m, r, p) : t \in {"in", "out"}, i \in FingerPoses, m \in FingerPoses, r \in FingerPoses, p \in FingerPoses}

\* y coordinates around the two thresholds of one finger: the tip lies at, just
\* above and just below pip - T and pip - T/2, the MCP joint below the tip,
\* above it or level with it.  With the PIP joint at 0.454 a tip at pip - T
\* is below the double pip - 0.03, with it at 0.470 a tip at pip - T/2 is
\* above the double pip - 0.015; at 0.500 and 0.520 neither is.
GridPips == {454, 470, 500, 520}
GridOffsets == {-150, -31, -30, -29, -16, -15, -14, 60}
GridMcps(tip_y) == {600, 460, tip_y}

\* A hand whose finger k (1 = index .. 4 = pinky) has the given coordinates, the
\* other fingers being up or down.
GridHand(k, t, mcp_y, pip_y, tip_y, a, b, c) ==
    LET rest == <<a, b, c>>
        F(j, x) == IF j = k THEN FingerAt(x, mcp_y, pip_y, tip_y)
                   ELSE FingerPts(x, rest[IF j < k THEN j ELSE j - 1])
    IN  << <<500, 900, 0>> >> \o ThumbPts(t) \o F(1, 400) \o F(2, 480) \o F(3, 560) \o F(4, 640)

GridHands ==
    {GridHand(k, t, mcp_y, pip_y, pip_y + o, a, b, c) :
        k \in 1..4, t \in {"in", "out"}, pip_y \in GridPips, o \in GridOffsets, mcp_y \in {600, 460},
        a \in {"up", "down"}, b \in {"up", "down"}, c \in {"up", "down"}}
    \cup {GridHand(k, "in", pip_y + o, pip_y, pip_y + o, "up", "up", "down") :
        k \in 1..4, pip_y \in GridPips, o \in GridOffsets}

\* x coordinates of the wrist (the middle MCP joint is at 480: the hand is
\* presented one way, the other way, or neither), of the thumb IP joint, and
\* of the thumb tip relative to it; y coordinates of the thumb MCP joint and
\* of the thumb tip relative to it, around the curl threshold mcp.y + 0.12.
\* The ties are among them: a tip 0.03 right of an IP joint at 0.330, or at
\* 0.270 or 0.670 and 0.03 left of the IP joint, is decided one way by the
\* doubles, the other ties the other way; a tip at mcp.y + 0.12 is below the
\* double mcp.y + 0.12 for mcp.y 0.462 and not for 0.750.
WristXs == {460, 480, 500}
ThumbIpXs == {300, 330, 700}
ThumbOffsets == {-50, -31, -30, -29, 0, 29, 30, 31, 50}
ThumbMcpYs == {462, 750}
ThumbTipYs == {-100, 119, 120, 121}

ThumbHand(wrist_x, ip_x, tip_x, mcp_y, tip_y, pose) ==
    << <<wrist_x, 900, 0>>, <<420, 820, 0>>, <<350, mcp_y, 0>>, <<ip_x, 700, 0>>, <<tip_x, tip_y, 0>> >>
       \o FingerPts(400, pose) \o FingerPts(480, pose) \o FingerPts(560, pose) \o FingerPts(640, pose)

ThumbHands ==
    {ThumbHand(w, ip_x, ip_x + o, mcp_y, mcp_y + t, pose) :
        w \in WristXs, ip_x \in ThumbIpXs, o \in ThumbOffsets, mcp_y \in ThumbMcpYs, t \in ThumbTipYs, pose \in {"up", "down"}}

GeoHands == PoseHands \cup GridHands \cup ThumbHands

\* The landmark list mirrored horizontally: x -> 1 - x, in thousandths.
Mirror(lm) == [i \in 1..Len(lm) |-> <<1000 - lm[i][1], lm[i][2], lm[i][3]>>]

InitDetect ==
    /\ InitController
    /\ clock = ClockStart
    /\ out = None
    /\ raw = None
    /\ fingers = NoFingers
    /\ nlm = 0
    /\ InitHistory
    /\ InitScene
    /\ InitLoop
    /\ hand \in GeoHands
    /\ mirror = NoMirror
    /\ InitPersist
    /\ InitSetter

\* _detect on the list and on its mirror image.
DetectStep ==
    /\ raw = None
    /\ fingers' = FingerState(hand)
    /\ raw' = _detect(hand)
    /\ nlm' = Len(hand)
    /\ mirror' = [thumb |-> _thumb_extended(Mirror(hand)), gesture |-> _detect(Mirror(hand))]
    /\ UNCHANGED <<clock, out, hand>>
    /\ UNCHANGED fsm_vars
    /\ UNCHANGED hist_vars
    /\ UNCHANGED scene_vars
    /\ UNCHANGED loop_vars
    /\ UNCHANGED persist_vars
    /\ UNCHANGED set_vars

SpecDetect == InitDetect /\ [][DetectStep]_vars

\* ================================================================ claims
\* Clock readings and coordinates are doubles (see "comparisons of doubles"):
\* "D < SWITCH_COOLDOWN" between two readings is BelowCooldown, the
\* comparison the doubles give, and "D >= SWITCH_COOLDOWN" its negation.

\* an update() call has just been made
Called == calls' = calls + 1

\* C1 (debounce confirmation): on a fresh controller, while every call so
\* far was given 21 landmarks classifying as one non-IDLE label L, calls 1
\* to 5 return IDLE (in particular call 3 = DEBOUNCE_FRAMES does), and call
\* 6 returns L and leaves L the active gesture.
C1_DebounceConfirmation ==
    (uni \in Actionable /\ calls = run) =>
        /\ (calls < GESTURE_STABILITY_FRAMES =>
                out = GESTURE_IDLE /\ _active_gesture = None)
        /\ (calls = GESTURE_STABILITY_FRAMES =>
                out = uni /\ _active_gesture = uni)

C1_Witness ==
    /\ calls = GESTURE_STABILITY_FRAMES
    /\ run = calls
    /\ uni = GESTURE_PEACE
    /\ out = GESTURE_PEACE
    /\ _active_gesture = GESTURE_PEACE

\* C2 (no self-reconfirmation): an update() whose raw label is the active
\* gesture returns IDLE, and a non-IDLE return never carries the label of
\* the non-IDLE return before it.
C2_NoSelfReconfirmation ==
    [][Called =>
        /\ (raw' = _active_gesture => out' = GESTURE_IDLE)
        /\ (out' # GESTURE_IDLE => out' # lastEmit)]_vars

\* L confirmed, interrupted by another label, then held for six frames again
C2_Witness ==
    /\ _active_gesture \in Actionable
    /\ raw = _active_gesture
    /\ lastEmit = raw
    /\ run = GESTURE_STABILITY_FRAMES
    /\ calls > 2 * GESTURE_STABILITY_FRAMES
    /\ out = GESTURE_IDLE

\* C3 (cooldown suppression): after a confirmed switch to L1 at t0, a call at
\* t0 + D whose raw label L2 is actionable, differs from L1 and has been held
\* for the stability threshold returns IDLE if D < SWITCH_COOLDOWN and L2
\* otherwise.
C3_CooldownSuppression ==
    [][(/\ Called
        /\ lastEmit \in Actionable
        /\ raw' \in Actionable
        /\ raw' # lastEmit
        /\ run' >= GESTURE_STABILITY_FRAMES)
       => out' = IF BelowCooldown(clock', emitTime)
                 THEN GESTURE_IDLE ELSE raw']_vars

\* the second switch, exactly SWITCH_COOLDOWN after the first
C3_Witness ==
    /\ emits = 2
    /\ out \in Actionable
    /\ run >= GESTURE_STABILITY_FRAMES
    /\ clock = ClockStart + SWITCH_COOLDOWN

\* C4 (minimum switch interval): a non-IDLE return comes at least
\* SWITCH_COOLDOWN after the non-IDLE return before it, and a call that is
\* suppressed by the cooldown alone changes neither the active gesture nor
\* the last-switch timestamp.
C4_MinimumSwitchInterval ==
    [][Called =>
        /\ (out' # GESTURE_IDLE /\ emits > 0
                => ~BelowCooldown(clock', emitTime))
        /\ (/\ emits > 0
            /\ raw' \in Actionable
            /\ raw' # _active_gesture
            /\ run' >= GESTURE_STABILITY_FRAMES
            /\ BelowCooldown(clock', emitTime)
            => /\ out' = GESTURE_IDLE
               /\ _active_gesture' = _active_gesture
               /\ _last_switch' = _last_switch)]_vars

\* a stable new label one hundredth short of the cooldown
C4_Witness ==
    /\ emits = 1
    /\ raw \in Actionable
    /\ raw # lastEmit
    /\ run >= GESTURE_STABILITY_FRAMES
    /\ clock - emitTime = SWITCH_COOLDOWN - 1
    /\ out = GESTURE_IDLE
    /\ _active_gesture = lastEmit
    /\ _last_switch = emitTime

\* C5 (dropout resilience): a call with no hand (an empty list, or fewer
\* than 21 landmarks) returns IDLE and leaves held label, hold counter,
\* active gesture and last-switch timestamp as they were; and when every
\* 21-landmark frame so far classified as one actionable label L and
\* dropouts came between them, L is returned on the 6th such frame and IDLE
\* on the ones before it.
C5_DropoutResilience ==
    [][Called =>
        /\ (nlm' < LANDMARK_COUNT =>
                /\ out' = GESTURE_IDLE
                /\ UNCHANGED <<_gesture_hold, _hold_frames, _active_gesture,
                               _last_switch>>)
        /\ (/\ uni' \in Actionable
            /\ nlm' = LANDMARK_COUNT
            /\ calls' > run'
            /\ run' <= GESTURE_STABILITY_FRAMES
            => out' = IF run' = GESTURE_STABILITY_FRAMES
                      THEN uni' ELSE GESTURE_IDLE)]_vars

\* six L frames with one dropout between them: L comes on the 7th call
C5_Witness ==
    /\ calls = GESTURE_STABILITY_FRAMES + 1
    /\ run = GESTURE_STABILITY_FRAMES
    /\ consec \in 1..(GESTURE_STABILITY_FRAMES - 1)
    /\ uni \in Actionable
    /\ out = uni
    /\ _hold_frames = GESTURE_STABILITY_FRAMES

\* C6 (any length other than 21 is "no hand"): a call whose landmark list
\* does not have exactly 21 entries returns IDLE, classifies nothing and
\* leaves held label and hold counter as they were.
C6_WrongLengthIsNoHand ==
    [][Called /\ nlm' # LANDMARK_COUNT =>
        /\ out' = GESTURE_IDLE
        /\ raw' = "NOHAND"
        /\ UNCHANGED <<_gesture_hold, _hold_frames>>]_vars

\* C7 (debounce lower bound): a non-IDLE return L is the raw label of this
\* frame, comes with a hold counter of at least GESTURE_STABILITY_FRAMES,
\* and the 6 most recent classified frames all classified as L; the first 5
\* calls on a fresh controller return IDLE.
C7_DebounceLowerBound ==
    /\ (out \in Actionable =>
            /\ raw = out
            /\ _hold_frames >= GESTURE_STABILITY_FRAMES
            /\ runLabel = out
            /\ run >= GESTURE_STABILITY_FRAMES)
    /\ (calls \in 1..(GESTURE_STABILITY_FRAMES - 1) => out = GESTURE_IDLE)
    /\ out \in Labels \cup {None}

\* a label confirmed after frames of other labels
C7_Witness ==
    /\ out \in Actionable
    /\ calls > GESTURE_STABILITY_FRAMES
    /\ run = GESTURE_STABILITY_FRAMES
    /\ emits = 1

\* C8 as stated: a non-IDLE return is preceded by 6 calls in a row, the
\* current one included, that were all given landmarks classifying as it.
C8_SixConsecutiveCalls ==
    out \in Actionable =>
        consec >= GESTURE_STABILITY_FRAMES /\ runLabel = out

\* C8 as amended: a non-IDLE return L comes on a call given at least 21
\* landmarks, and the 6 most recent calls that were given at least 21
\* landmarks all classified as L; calls with fewer landmarks may lie between
\* them.
C8_SixClassifiedCalls ==
    out \in Actionable =>
        /\ nlm >= LANDMARK_COUNT
        /\ consec >= 1
        /\ runLabel = out
        /\ run >= GESTURE_STABILITY_FRAMES

\* a label confirmed although a no-hand call lay among the last six calls
C8_Witness ==
    /\ out \in Actionable
    /\ run = GESTURE_STABILITY_FRAMES
    /\ consec < GESTURE_STABILITY_FRAMES

\* C9 (classifier priority): with all five fingers extended the classifier
\* returns OPEN_PALM: on the booleans _detect has computed, and by the rule
\* table on every vector of nine booleans, whatever the closed flags are.
C9_OpenPalmFirst ==
    /\ (/\ raw # None
        /\ fingers.thumb /\ fingers.index /\ fingers.middle
        /\ fingers.ring /\ fingers.pinky)
       => raw = GESTURE_OPEN_PALM
    /\ \A f \in BooleanVectors :
           (f.thumb /\ f.index /\ f.middle /\ f.ring /\ f.pinky)
           => ClassifyState(f) = GESTURE_OPEN_PALM

\* all five fingers extended, classified
C9_Witness ==
    /\ raw = GESTURE_OPEN_PALM
    /\ fingers.thumb /\ fingers.index /\ fingers.middle
    /\ fingers.ring /\ fingers.pinky

\* The rule table as section 4.2 of the specification words it, every rule
\* with the failure of the rules above it spelled out.
RuleTable(f) ==
    LET all_five == f.thumb /\ f.index /\ f.middle /\ f.ring /\ f.pinky
        three    == f.index /\ f.middle /\ f.ring
        peace    == f.index /\ f.middle /\ f.ring_closed /\ f.pinky_closed
        fist     == f.index_closed /\ f.middle_closed /\ f.ring_closed
                    /\ f.pinky_closed
    IN  CASE all_five -> GESTURE_OPEN_PALM
          [] ~all_five /\ three -> GESTURE_THREE_FINGERS
          [] ~all_five /\ ~three /\ peace -> GESTURE_PEACE
          [] ~all_five /\ ~three /\ ~peace /\ fist -> GESTURE_FIST
          [] ~all_five /\ ~three /\ ~peace /\ ~fist -> GESTURE_IDLE

\* C10 (rule table): for every vector of the nine finger booleans the
\* classifier returns one of the five labels, the one the ordered rule table
\* gives.
C10_RuleTable ==
    /\ raw # None => raw \in Labels /\ raw = RuleTable(fingers)
    /\ \A f \in BooleanVectors :
           ClassifyState(f) \in Labels /\ ClassifyState(f) = RuleTable(f)

\* index and middle extended with the thumb, ring and pinky closed
C10_Witness ==
    /\ raw = GESTURE_PEACE
    /\ fingers.ring_closed /\ fingers.pinky_closed
    /\ fingers.thumb

\* an ObjectManager call has just been made
SceneCalled == sceneCalls' = sceneCalls + 1

\* C11 (spawn): a spawn(label, factory) call that returns replaces the
\* entity exactly when label differs from the owning label or no entity is
\* active; then it returns True, the owning label is label and the entity is
\* a new instance of the factory's class; otherwise it returns False and the
\* manager is as it was, no constructor having run.
C11_SpawnReplacesIffDifferent ==
    [][(SceneCalled /\ lastOp'.name = "spawn" /\ lastOp'.ret # "raised") =>
        IF lastOp'.label # current_gesture \/ current_object = NoObject
        THEN /\ lastOp'.ret = "True"
             /\ current_gesture' = lastOp'.label
             /\ current_object' = NewEntity(lastOp'.cls, made + 1)
             /\ current_object'.id # current_object.id
             /\ made' = made + 1
        ELSE /\ lastOp'.ret = "False"
             /\ UNCHANGED <<current_object, current_gesture, made>>]_vars

\* an entity of one label replaced by an entity of another
C11_Witness ==
    /\ lastOp.name = "spawn"
    /\ lastOp.ret = "True"
    /\ made = 2
    /\ current_object.id = 2
    /\ current_gesture = lastOp.label

\* C12 (idempotence): a spawn(L, factory) call right after a spawn(L, ...)
\* call that returned returns False, runs no constructor and leaves entity
\* instance and owning label in place.
C12_SecondSpawnIgnored ==
    [][(/\ SceneCalled
        /\ lastOp'.name = "spawn"
        /\ lastOp.name = "spawn"
        /\ lastOp.ret \in {"True", "False"}
        /\ lastOp'.label = lastOp.label)
       => /\ lastOp'.ret = "False"
          /\ made' = made
          /\ UNCHANGED <<current_object, current_gesture>>]_vars

\* spawn(L) that replaced, then spawn(L) again
C12_Witness ==
    /\ sceneCalls = 2
    /\ lastOp.name = "spawn"
    /\ lastOp.ret = "False"
    /\ made = 1
    /\ current_object.id = 1
    /\ current_gesture = lastOp.label

\* C13 (scene invariant): after every sequence of calls the manager refers
\* to at most one entity, and the owning label is None exactly when there is
\* no entity.
C13_SceneInvariant ==
    /\ Cardinality(Live) <= MAX_OBJECTS
    /\ (current_gesture = None <=> current_object = NoObject)
    /\ (current_object # NoObject => current_object.id \in 1..made)

\* a second entity has taken the place of the first
C13_Witness ==
    /\ made = 2
    /\ current_object.id = 2
    /\ current_gesture \in Labels
    /\ lastOp.name = "draw"

\* C14 (no auto-expiry): ObjectManager.update(dt) keeps the entity instance
\* and the owning label, also when the entity's own update() returns False,
\* and only ages the entity; the slot changes only in a spawn that returned
\* True (label different from the owning one, or no entity) or in a clear.
C14_NoAutoExpiry ==
    [][SceneCalled =>
        /\ (lastOp'.name = "update" =>
                /\ current_object'.id = current_object.id
                /\ current_object'.cls = current_object.cls
                /\ current_gesture' = current_gesture
                /\ made' = made
                /\ (current_object # NoObject =>
                        current_object'.age > current_object.age))
        /\ ((current_object'.id # current_object.id
             \/ current_gesture' # current_gesture) =>
                \/ lastOp'.name = "clear"
                \/ /\ lastOp'.name = "spawn"
                   /\ lastOp'.ret = "True"
                   /\ (lastOp'.label # current_gesture
                       \/ current_object = NoObject))]_vars

\* a Flower whose update() has just returned False at age 22 s
C14_Witness ==
    /\ lastOp.name = "update"
    /\ lastOp.ret = "False"
    /\ current_object.cls = "Flower"
    /\ current_object.age = ENTITY_LIFETIME
    /\ current_gesture # None

\* C19 (atomic replacement): when the constructor handed to spawn raises,
\* entity and owning label are what they were before the call; when it
\* returns, the old entity is replaced in the same call.
C19_AtomicReplacement ==
    [][(SceneCalled /\ lastOp'.name = "spawn") =>
        /\ (lastOp'.ret = "raised" =>
                UNCHANGED <<current_object, current_gesture>>)
        /\ (lastOp'.ret = "True" =>
                /\ current_object'.id = made'
                /\ current_object'.age = 0
                /\ Live' = {made'})]_vars

\* the constructor raised while an entity of another label was active
C19_Witness ==
    /\ lastOp.name = "spawn"
    /\ lastOp.ret = "raised"
    /\ current_object # NoObject
    /\ current_object.id = 1
    /\ lastOp.label # current_gesture
    /\ made = 2

\* C15: in the frame loop, whenever update() returns a label L other than
\* IDLE, the owning label the manager holds at that moment differs from L, and
\* the spawn called for it returns True and replaces the entity by a new
\* instance of L's class, owned by L.
C15_ConfirmedSpawnReplaces ==
    [][(Called /\ out' \in Actionable) =>
          /\ current_gesture # out'
          /\ tick'.spawn # None =>
                 /\ tick'.spawn = "True"
                 /\ made' = made + 1
                 /\ current_object'.id = made + 1
                 /\ current_object'.id \notin Live
                 /\ current_object'.cls = gesture_map[out']
                 /\ current_gesture' = out']_vars

\* C16: from construction, while every update() call got an open hand: the
\* first five return IDLE with an empty scene, the sixth returns OPEN_PALM and
\* the scene holds a Nebula owned by OPEN_PALM, every later one returns IDLE
\* and the scene keeps that same instance.  When fists follow six or more open
\* hands: update() returns FIST exactly on the first fist frame that is at
\* least the sixth and at least SWITCH_COOLDOWN after the OPEN_PALM return,
\* and from then on the scene holds an EnergyOrb owned by FIST; until then it
\* holds the Nebula.
C16_OpenThenFist ==
    [][Called =>
          /\ (story' = "open" /\ run' < GESTURE_STABILITY_FRAMES) =>
                 /\ out' = GESTURE_IDLE
                 /\ emits' = 0
                 /\ current_object' = NoObject
                 /\ current_gesture' = None
          /\ (story' = "open" /\ run' = GESTURE_STABILITY_FRAMES) =>
                 /\ out' = GESTURE_OPEN_PALM
                 /\ tick'.spawn = "True"
          /\ (story' = "open" /\ run' > GESTURE_STABILITY_FRAMES) =>
                 /\ out' = GESTURE_IDLE
                 /\ tick'.spawn = None
                 /\ current_object'.id = current_object.id
          /\ (story' = "open" /\ run' >= GESTURE_STABILITY_FRAMES) =>
                 /\ emits' = 1
                 /\ current_object'.cls = "Nebula"
                 /\ current_object'.id = 1
                 /\ current_gesture' = GESTURE_OPEN_PALM
          /\ story' = "fist" =>
                 /\ out' = GESTURE_FIST <=>
                        /\ run' >= GESTURE_STABILITY_FRAMES
                        /\ emits = 1
                        /\ ~BelowCooldown(clock', emitTime)
                 /\ out' \in {GESTURE_FIST, GESTURE_IDLE}
                 /\ emits' = 1 =>
                        /\ current_object'.cls = "Nebula"
                        /\ current_object'.id = 1
                        /\ current_gesture' = GESTURE_OPEN_PALM
                 /\ emits' # 1 =>
                        /\ emits' = 2
                        /\ current_object'.cls = "EnergyOrb"
                        /\ current_object'.id = 2
                        /\ current_gesture' = GESTURE_FIST]_vars

\* C17: handle_gestures calls spawn for no IDLE return and for no label that
\* is not a key of gesture_map, and then leaves entity and owning label as
\* they were; the keys of gesture_map are the four labels other than IDLE,
\* with THREE_FINGERS -> MilkyWay, OPEN_PALM -> Nebula, FIST -> EnergyOrb and
\* PEACE -> Flower, and a spawn made in the loop constructs the class paired
\* with the returned label.
C17_IdleAndUnmappedAreNoOps ==
    [][Called =>
          /\ \A g \in {GESTURE_IDLE, None, "WAVE"} :
                 Dispatch(Om, g, made + 1) = [om |-> Om, ret |-> None, constructed |-> 0]
          /\ DOMAIN gesture_map = Actionable
          /\ \A g \in Actionable \ {Om.current_gesture} :
                 /\ Dispatch(Om, g, made + 1).ret = "True"
                 /\ Dispatch(Om, g, made + 1).om.current_gesture = g
                 /\ Dispatch(Om, g, made + 1).om.current_object.cls =
                        CASE g = GESTURE_THREE_FINGERS -> "MilkyWay"
                          [] g = GESTURE_OPEN_PALM     -> "Nebula"
                          [] g = GESTURE_FIST          -> "EnergyOrb"
                          [] g = GESTURE_PEACE         -> "Flower"
          /\ out' = GESTURE_IDLE =>
                 /\ tick'.spawn = None
                 /\ made' = made
                 /\ current_object'.id = current_object.id
                 /\ current_object'.cls = current_object.cls
                 /\ current_gesture' = current_gesture
          /\ tick'.spawn # None =>
                 /\ out' \in DOMAIN gesture_map
                 /\ current_gesture' = out'
                 /\ current_object'.cls =
                        CASE out' = GESTURE_THREE_FINGERS -> "MilkyWay"
                          [] out' = GESTURE_OPEN_PALM     -> "Nebula"
                          [] out' = GESTURE_FIST          -> "EnergyOrb"
                          [] out' = GESTURE_PEACE         -> "Flower"]_vars

\* An IDLE return in a tick in which a Flower, spawned for PEACE, stays.
C17_Witness ==
    /\ tick.gesture = GESTURE_IDLE
    /\ tick.spawn = None
    /\ current_object.cls = "Flower"
    /\ current_gesture = GESTURE_PEACE

\* C18: a tick in which get_frame() or process_frame() fails (returns no
\* frame, or raises) leaves held label, hold counter, active gesture,
\* last-switch time, entity and owning label as they were, spawns nothing,
\* and, unless quit was signalled, the loop goes on to the next tick.
C18_FailureIsNoHand ==
    [][(tick'.frame \in {"none", "raise"} \/ tick'.pose = "raise") =>
          /\ UNCHANGED <<_gesture_hold, _hold_frames, _active_gesture, _last_switch>>
          /\ tick'.spawn = None
          /\ current_object'.id = current_object.id
          /\ current_gesture' = current_gesture
          /\ ~tick'.quit => (pc' = "loop" /\ ~released')]_vars

\* C20: at the end of every tick the controller's active gesture equals the
\* manager's owning label: None until update() first returned a label, the
\* latest returned label afterwards.
C20_ActiveGestureSynchronised ==
    /\ _active_gesture = current_gesture
    /\ emits = 0 => current_gesture = None
    /\ emits > 0 => current_gesture = lastEmit

\* The steps of one iteration, in the order run() lists them.
TickOrder == <<"get_frame", "process_frame", "update", "spawn", "om_update", "draw">>

\* the place of a step in TickOrder
StepRank(name) ==
    CASE name = "get_frame" -> 1
      [] name = "process_frame" -> 2
      [] name = "update" -> 3
      [] name = "spawn" -> 4
      [] name = "om_update" -> 5
      [] name = "draw" -> 6

\* The steps of the tick just made come in the order of TickOrder, each at
\* most once.
StepsInOrder ==
    \A i, j \in 1..Len(tick'.steps) :
        i < j => StepRank(tick'.steps[i][1]) < StepRank(tick'.steps[j][1])

\* C21: the steps of every tick come in the order get_frame, process_frame,
\* update, spawn, entity update, draw; an entity spawned in a tick is updated
\* and drawn in that same tick, and the entity it replaced is neither updated
\* nor drawn any more.
C21_SpawnedAlwaysDrawn ==
    [][/\ StepsInOrder
       /\ \A i \in 1..Len(tick'.steps) :
              tick'.steps[i][1] \in {"om_update", "draw"} => tick'.steps[i][2] = current_object'.id
       /\ tick'.spawn # None =>
              /\ Len(tick'.steps) = 6
              /\ tick'.steps[4] = <<"spawn", made + 1>>
              /\ tick'.steps[5] = <<"om_update", made + 1>>
              /\ tick'.steps[6] = <<"draw", made + 1>>]_vars

\* C22: every tick starts with the loop running; a tick in which a quit event
\* is seen runs to its end (update() is called when there is a frame, the
\* entity is updated and drawn), and after it the loop has ended and camera
\* and hand tracker are released.
C22_QuitCompletesTick ==
    [][/\ pc = "loop"
       /\ running
       /\ tick'.quit =>
              /\ ~tick'.error
              /\ tick'.frame = "frame" => Called
              /\ Len(tick'.steps) >= 3
              /\ tick'.steps[Len(tick'.steps)][1] = "draw"
              /\ tick'.steps[Len(tick'.steps) - 1][1] = "om_update"
              /\ ~running'
              /\ pc' = "done"
              /\ released']_vars

\* C23: a tick in which get_frame() returns None makes no update() call, so
\* the controller is as before, spawns nothing, and the entity the manager
\* holds is updated and drawn in that tick.
C23_AbsentFrameStillDrawn ==
    [][tick'.frame = "none" =>
          /\ UNCHANGED fsm_vars
          /\ tick'.spawn = None
          /\ current_gesture' = current_gesture
          /\ current_object'.id = current_object.id
          /\ current_object # NoObject =>
                 /\ tick'.steps = << <<"get_frame", 0>>,
                                     <<"om_update", current_object.id>>,
                                     <<"draw", current_object.id>> >>
                 /\ current_object'.age = current_object.age + (last_time' - last_time)]_vars

\* C24: a call given a hand whose raw label differs from the held label (a
\* raw IDLE included) sets the held label to it and the hold counter to 1;
\* one whose raw label is the held label adds exactly 1 to the counter; a
\* call with no hand changes neither.  So the hold counter is the number of
\* hands in a row, no-hand calls left aside, that classified as the held
\* label, and a label is returned only when that number has reached 6 again
\* after any hand of another label.
C24_CounterResetOnChange ==
    [][Called =>
          /\ (nlm' >= LANDMARK_COUNT /\ raw' # _gesture_hold) =>
                 /\ _gesture_hold' = raw'
                 /\ _hold_frames' = 1
          /\ (nlm' >= LANDMARK_COUNT /\ raw' = _gesture_hold) =>
                 /\ _gesture_hold' = _gesture_hold
                 /\ _hold_frames' = _hold_frames + 1
          /\ nlm' < LANDMARK_COUNT => UNCHANGED <<_gesture_hold, _hold_frames>>
          /\ _hold_frames' = run'
          /\ run' > 0 => _gesture_hold' = runLabel'
          /\ out' \in Actionable =>
                 /\ runLabel' = out'
                 /\ run' >= GESTURE_STABILITY_FRAMES]_vars

\* A label returned on the sixth hand in a row after hands of another label
\* had come first.
C24_Witness ==
    /\ out \in Actionable
    /\ emits = 1
    /\ uni = "MIXED"
    /\ nlm = LANDMARK_COUNT
    /\ _hold_frames = GESTURE_STABILITY_FRAMES
    /\ consec = GESTURE_STABILITY_FRAMES
    /\ calls = GESTURE_STABILITY_FRAMES + 4

\* C25: over runs of update() calls the active gesture changes only on a
\* call that returns a label other than IDLE, and then is that label; it is
\* never IDLE, and once it is a label it never is None again.
C25_ActiveGestureNeverCleared ==
    [][Called =>
          /\ out' = GESTURE_IDLE => _active_gesture' = _active_gesture
          /\ out' # GESTURE_IDLE => _active_gesture' = out'
          /\ _active_gesture' # GESTURE_IDLE
          /\ _active_gesture' \in Actionable \cup {None}
          /\ _active_gesture # None => _active_gesture' # None]_vars

\* After a confirmed label: a no-hand call that follows hands of another,
\* not yet stable label; the active gesture stays.
C25_Witness ==
    /\ emits = 1
    /\ _active_gesture = lastEmit
    /\ _active_gesture \in Actionable
    /\ out = GESTURE_IDLE
    /\ raw = "NOHAND"
    /\ _gesture_hold \in Actionable \ {_active_gesture}
    /\ _hold_frames \in 1..(GESTURE_STABILITY_FRAMES - 1)
    /\ calls > emits + GESTURE_STABILITY_FRAMES

\* C30: while no label has been returned yet, the last-switch time is the
\* 0.0 of the constructor and every clock reading is at least SWITCH_COOLDOWN
\* past it, so the first call on which a label other than IDLE has a hold
\* counter of 6 or more returns that label, also when no time at all has
\* passed since construction.
C30_FirstSwitchNotSuppressed ==
    [][(Called /\ emits = 0) =>
          /\ _last_switch = 0
          /\ ~BelowCooldown(clock', _last_switch)
          /\ (/\ nlm' >= LANDMARK_COUNT
              /\ raw' \in Actionable
              /\ _hold_frames' >= GESTURE_STABILITY_FRAMES) =>
                 /\ out' = raw'
                 /\ _hold_frames' = GESTURE_STABILITY_FRAMES
                 /\ _active_gesture' = raw'
                 /\ _last_switch' = clock']_vars

\* The first label is returned on the sixth call with the clock still at its
\* reading of construction time.
C30_Witness ==
    /\ emits = 1
    /\ calls = GESTURE_STABILITY_FRAMES
    /\ out \in Actionable
    /\ clock = ClockStart
    /\ _last_switch = ClockStart

\* The y coordinates <<tip, pip, mcp>> of finger k (1 = index .. 4 = pinky).
FingerYs(lm, k) == <<_y(lm, 4 * k + 4), _y(lm, 4 * k + 2), _y(lm, 4 * k + 1)>>

FingerNames == <<"index", "middle", "ring", "pinky">>

ClosedNames == <<"index_closed", "middle_closed", "ring_closed", "pinky_closed">>

\* tip < pip - T and tip < mcp, on the doubles
ExtendedAt(ys) == BelowPipMinusT(ys[1], ys[2]) /\ ys[1] < ys[3]

\* tip > pip - T/2, on the doubles
ClosedAt(ys) == AbovePipMinusHalfT(ys[1], ys[2])

\* C28: for every finger other than the thumb, "extended" is tip < pip - T
\* and tip < mcp, "closed" is tip > pip - T/2, and no coordinates give both;
\* when at least one of the four fingers is neither, _detect returns neither
\* PEACE nor FIST.
C28_DeadZone ==
    raw # None =>
        /\ \A k \in 1..4 :
               /\ fingers[FingerNames[k]] = ExtendedAt(FingerYs(hand, k))
               /\ fingers[ClosedNames[k]] = ClosedAt(FingerYs(hand, k))
               /\ ~(fingers[FingerNames[k]] /\ fingers[ClosedNames[k]])
        /\ (\E k \in 1..4 : ~ExtendedAt(FingerYs(hand, k)) /\ ~ClosedAt(FingerYs(hand, k))) =>
               raw \notin {GESTURE_PEACE, GESTURE_FIST}

\* Index and middle up, pinky down, the ring finger neither extended nor
\* closed: what would be PEACE with the ring finger closed is IDLE.
C28_Witness ==
    /\ raw = GESTURE_IDLE
    /\ fingers.index /\ fingers.middle
    /\ fingers.pinky_closed
    /\ ~fingers.ring /\ ~fingers.ring_closed
    /\ FingerYs(hand, 3)[1] = FingerYs(hand, 3)[2] - EXTENSION_TOLERANCE

\* C29: mirroring every landmark horizontally changes neither the result of
\* _thumb_extended nor the gesture _detect returns.
C29_MirrorSymmetry ==
    raw # None =>
        /\ mirror.thumb = fingers.thumb
        /\ mirror.gesture = raw

\* C26: once every hand shows one label L that is not the active gesture,
\* hands keep arriving and the clock keeps advancing, L is returned on the
\* first such hand with a hold counter of 6 or more that comes
\* SWITCH_COOLDOWN or more after the last switch, and on no earlier one; the
\* hold counter goes up by one with every such hand, no-hand calls between
\* them leave it alone, and L does get returned.
C26_SuppressedGestureNotLost ==
    /\ [][(Called /\ target' # None) =>
             /\ (nlm' >= LANDMARK_COUNT /\ _active_gesture # target') =>
                    /\ raw' = target'
                    /\ out' = target' <=>
                           /\ _hold_frames' >= GESTURE_STABILITY_FRAMES
                           /\ ~BelowCooldown(clock', _last_switch)
                    /\ out' \in {target', GESTURE_IDLE}
                    /\ _gesture_hold = target' => _hold_frames' = _hold_frames + 1
             /\ nlm' < LANDMARK_COUNT =>
                    /\ out' = GESTURE_IDLE
                    /\ UNCHANGED <<_gesture_hold, _hold_frames, _active_gesture>>]_vars
    /\ (target # None) ~> (_active_gesture = target /\ lastEmit = target)

\* Six open hands at one clock reading, then fists 0.05 s apart: the sixth
\* fist came 0.30 s after the first switch and was suppressed, the seventh
\* was returned.
C26_Witness ==
    /\ target = GESTURE_FIST
    /\ out = GESTURE_FIST
    /\ _active_gesture = GESTURE_FIST
    /\ emits = 2
    /\ held = GESTURE_STABILITY_FRAMES + 1
    /\ _hold_frames = GESTURE_STABILITY_FRAMES + 1
    /\ drops = 0
    /\ clock = ClockStart + SWITCH_COOLDOWN

\* the controller after the step
SelfNext ==
    [gesture_hold   |-> _gesture_hold',
     hold_frames    |-> _hold_frames',
     active_gesture |-> _active_gesture',
     last_switch    |-> _last_switch',
     frame_count    |-> _frame_count']

\* clock readings of a next update() call
NextNows == {clock + d : d \in LoopSteps \cup {SWITCH_COOLDOWN - 1, SWITCH_COOLDOWN}}

\* a next update() call at now with a hand showing the label would return it
Emittable(self, label, now) == update(self, HandOf(label), now).ret = label

\* set_active_gesture() has just been called
SetCalled == lastSet'.sets = lastSet.sets + 1

\* C31: set_active_gesture(g) changes the active gesture to g and nothing
\* else: the held label, the hold counter, the last-switch timestamp and the
\* frame counter stay.  After it a held gesture equal to g is not returned by
\* the next update() call whatever the clock reads, and a held gesture equal
\* to the previous active gesture (other than g), which was not returnable
\* before, is returned by the next call exactly when the hold counter reaches
\* 6 and SWITCH_COOLDOWN has passed since the last switch; no update() call
\* returns the active gesture.
C31_SetterChangesOnlyActive ==
    /\ [][SetCalled =>
             /\ _active_gesture' = lastSet'.gesture
             /\ UNCHANGED <<_gesture_hold, _hold_frames, _last_switch, _frame_count>>
             /\ UNCHANGED obs_vars
             /\ \A now \in NextNows :
                    /\ _gesture_hold = lastSet'.gesture => ~Emittable(SelfNext, _gesture_hold, now)
                    /\ (_gesture_hold = _active_gesture /\ _gesture_hold \in Actionable /\ _gesture_hold # lastSet'.gesture) =>
                           /\ ~Emittable(Self, _gesture_hold, now)
                           /\ Emittable(SelfNext, _gesture_hold, now) <=>
                                  /\ _hold_frames + 1 >= GESTURE_STABILITY_FRAMES
                                  /\ ~BelowCooldown(now, _last_switch)]_vars
    /\ [][(Called /\ out' # GESTURE_IDLE) => out' # _active_gesture]_vars

\* Open hands throughout: the sixth is returned, a later one is not (already
\* active), the caller then sets another gesture, and the next open hand is
\* returned again, with the hold counter still running and less than
\* SWITCH_COOLDOWN after the set but SWITCH_COOLDOWN or more after the first
\* switch.
C31_Witness ==
    /\ lastSet.previous = GESTURE_OPEN_PALM
    /\ lastSet.gesture = GESTURE_FIST
    /\ lastSet.at = calls - 1
    /\ out = GESTURE_OPEN_PALM
    /\ _active_gesture = GESTURE_OPEN_PALM
    /\ emits = 2
    /\ _hold_frames = calls
    /\ _hold_frames > GESTURE_STABILITY_FRAMES + 1
    /\ clock - lastSet.clock < SWITCH_COOLDOWN
    /\ lastSet.clock > ClockStart


====
